---- MODULE Spec2Model ----
(***************************************************************************)
(* Model of hourly/invoice/btcpay.py: get_btcpay_invoice (invoice          *)
(* resolution, confirmation and submission), get_btcpay_client and         *)
(* initialize_btcpay (the interactive pairing run).                        *)
(*                                                                         *)
(* Representation.  An optional value (a config leaf that may be null, a   *)
(* Python None) is a sequence of length 0 or 1: None == <<>>, Some(v) ==   *)
(* <<v>>.  Text on which the code calls len() or lower() is a sequence of  *)
(* one-character strings; other text is a TLA+ string.  Numbers are        *)
(* integers.  pc holds the source line at which the running function       *)
(* stands; one action is one block of statements of the source.            *)
(***************************************************************************)
EXTENDS Integers, Sequences, FiniteSets, TLC

VARIABLES
    cfg,              \* cfg.invoice.btcpay: the configuration sub-tree
    files,            \* the file system: filename -> None | Some(contents)
    btcpay_installed, \* whether "from btcpay import ..." succeeds
    pc,               \* position of the process
    fn,               \* the function being (or last) run
    calls,            \* number of calls made so far on this tree
    frame,            \* locals of the running function
    stdout,           \* what the run printed that matters (the shown request, the status)
    prompts,          \* sequence of the prompts shown in this run
    remote,           \* log of the remote/collaborator operations invoked in this run
    outcome,          \* how the last run ended
    cfg0,             \* cfg at the start of the run
    files0            \* files at the start of the run

vars == <<cfg, files, btcpay_installed, pc, fn, calls, frame, stdout, prompts,
          remote, outcome, cfg0, files0>>

----------------------------------------------------------------------------
(* Bounds *)

MaxCalls == 2

----------------------------------------------------------------------------
(* Optional values *)

None == <<>>

Some(v) == <<v>>

Val(o) == o[1]

----------------------------------------------------------------------------
(* Text typed by the operator *)

yes == <<"y", "e", "s">>

LowerChar(c) ==
    CASE c = "Y" -> "y"
      [] c = "E" -> "e"
      [] c = "S" -> "s"
      [] c = "N" -> "n"
      [] c = "O" -> "o"
      [] OTHER -> c

\* str.lower()
Lower(s) == [i \in DOMAIN s |-> LowerChar(s[i])]

\* answers given to the yes/n prompts
Answers == { yes, <<"Y", "E", "S">>, <<"y">>, <<"n">>, <<>> }

----------------------------------------------------------------------------
(* Numbers *)

FloatMantissaBits == 53

RECURSIVE BitLen(_)
BitLen(n) == IF n = 0 THEN 0 ELSE 1 + BitLen(n \div 2)

Abs(n) == IF n < 0 THEN -n ELSE n

\* float(n) of an integer n: exact while n fits the mantissa, else rounded
\* to the nearest representable value (ties to even).
float(n) ==
    LET a == Abs(n)
        k == BitLen(a) - FloatMantissaBits
    IN  IF k <= 0 THEN n
        ELSE LET q   == a \div (2 ^ k)
                 r   == a % (2 ^ k)
                 h   == 2 ^ (k - 1)
                 up  == (r > h) \/ (r = h /\ q % 2 = 1)
                 m   == (IF up THEN q + 1 ELSE q) * (2 ^ k)
             IN  IF n < 0 THEN -m ELSE m

----------------------------------------------------------------------------
(* Inputs *)

\* labor records: consumed only through get_hours_worked / get_labor_description
Labors == { [hours |-> 0, desc |-> "no work"],
            [hours |-> 5, desc |-> "5h of work"] }

get_hours_worked(labor) == labor.hours

get_labor_description(labor) == labor.desc

Wages == { None, Some(0), Some(20), Some(999) }

CompCurrencies == { None, Some("USD") }

\* compensation: None (absent) or Some(record)
Compensations ==
    { None } \cup { Some([wage |-> w, currency |-> c]) : w \in Wages, c \in CompCurrencies }

\* values of the configuration the run starts from
Prices == { None, Some(0), Some(7) }

Currencies == { None, Some(""), Some("BTC") }

ItemDescs == { None, Some("custom") }

OrderIds == { None, Some("order-1") }

Roles == { "merchant", "pos" }

OldTokens == [ r \in Roles |-> "tok-old" ]

NoTokens == [ r \in {} |-> "" ]

\* what the remote create_invoice may answer
Responses == { [id |-> "inv-1", status |-> "new"],
               [id |-> "inv-2", status |-> "paid"] }

\* file names: the default key file, a key file named by the operator, a
\* configuration file named by the operator, and the blank name
DefaultPemFile == << "btcpayserver.pem" >>

CustomPemFile == << "k" >>

CustomConfigFile == << "c" >>

DefaultConfigFile == << "btcpay.yaml" >>

FileNames == { DefaultPemFile, CustomPemFile, CustomConfigFile, DefaultConfigFile }

\* contents of a file holding a PEM key
PemText(key) == [pem_text |-> key]

\* hydra.utils.to_absolute_path(cfg.invoice.btcpay.pem): the file the
\* configured pem names
to_absolute_path(pem) ==
    IF pem = "btcpayserver.pem" THEN DefaultPemFile ELSE << pem >>

\* os.path.exists
exists(fs, name) == name \in DOMAIN fs /\ fs[name] # None

----------------------------------------------------------------------------
(* Results of a block that may raise *)

Ok(v) == [ok |-> TRUE, value |-> v]

Raise(e) == [ok |-> FALSE, error |-> e]

NoCompensationError == "IOError: No compensation provided."

PriceError == "IOError: Must specify compensation wage or invoice.price"

CurrencyError == "IOError: Must specify invoice.currency (e.g. USD, BTC) or compensation currency"

RemoteError == "create_invoice raised"

SystemExit == "SystemExit"

----------------------------------------------------------------------------
(* State at the start of a call *)

NoRemote == [create_invoice |-> <<>>, pair_client |-> <<>>, generate_privkey |-> 0]

NoStdout == [request |-> None, status |-> None]

InvoiceFrame(labor, compensation) ==
    [labor |-> labor, compensation |-> compensation, client |-> None,
     hours_worked |-> None, user_confirms |-> None, invoice |-> None,
     result |-> None]

----------------------------------------------------------------------------
(* OmegaConf conversions: each yields a plain copy with the same keys and  *)
(* leaves                                                                  *)

\* fault: only the three resolved fields are converted, the pass-through
\* fields are dropped
to_container_resolved_only(node) ==
    [k \in { "price", "currency", "itemDesc" } |-> node[k]]

\* OmegaConf.to_container(node)
to_container(node) == [k \in DOMAIN node |-> node[k]]

\* node.pretty(): the document printed or written for node
pretty(node) == [k \in DOMAIN node |-> node[k]]

\* OmegaConf.create(mapping)
create(mapping) == [k \in DOMAIN mapping |-> mapping[k]]

----------------------------------------------------------------------------
(* get_btcpay_client *)

\* lines 124-135: the client built from the configured credentials; the
\* pem is read from the file it names when that file exists
get_btcpay_client(c, fs) ==
    LET pem_filename == to_absolute_path(c.pem)
        merchant == IF "merchant" \in DOMAIN c.tokens
                    THEN Some(c.tokens["merchant"]) ELSE None
    IN  [host   |-> c.host,
         pem    |-> IF exists(fs, pem_filename)
                    THEN Val(fs[pem_filename]).pem_text ELSE c.pem,
         tokens |-> [merchant |-> merchant]]

----------------------------------------------------------------------------
(* get_btcpay_invoice: the three resolution blocks, as functions from the  *)
(* invoice node to the node after the block, or to the error raised        *)

\* fault: the wage computation is used whenever a wage is set, the
\* configured price only as a fallback
resolve_price_wage_first(invoice, hours_worked, compensation) ==
    IF compensation.wage # None
    THEN Ok([invoice EXCEPT
               !.price = Some(float(hours_worked * Val(compensation.wage)))])
    ELSE IF invoice.price = None THEN Raise(PriceError) ELSE Ok(invoice)

\* fault: the earnings are rounded down to a multiple of ten
resolve_price_rounded(invoice, hours_worked, compensation) ==
    IF invoice.price = None
    THEN IF compensation.wage # None
         THEN Ok([invoice EXCEPT
                    !.price = Some(((hours_worked * Val(compensation.wage)) \div 10) * 10)])
         ELSE Raise(PriceError)
    ELSE Ok(invoice)

\* fault: an unset wage yields a price of zero instead of an error
resolve_price_default_zero(invoice, hours_worked, compensation) ==
    IF invoice.price = None
    THEN IF compensation.wage # None
         THEN Ok([invoice EXCEPT
                    !.price = Some(float(hours_worked * Val(compensation.wage)))])
         ELSE Ok([invoice EXCEPT !.price = Some(0)])
    ELSE Ok(invoice)

\* fault: the price is tested for truth, so a price of 0 counts as unset
resolve_price_truthy(invoice, hours_worked, compensation) ==
    IF invoice.price = None \/ invoice.price = Some(0)
    THEN IF compensation.wage # None
         THEN Ok([invoice EXCEPT
                    !.price = Some(float(hours_worked * Val(compensation.wage)))])
         ELSE Raise(PriceError)
    ELSE Ok(invoice)

\* lines 80-86
resolve_price(invoice, hours_worked, compensation) ==
    IF invoice.price = None
    THEN IF compensation.wage # None
         THEN Ok([invoice EXCEPT
                    !.price = Some(float(hours_worked * Val(compensation.wage)))])
         ELSE Raise(PriceError)
    ELSE Ok(invoice)

\* fault: the labor description always replaces the configured itemDesc
resolve_itemDesc_always_labor(invoice, labor) ==
    [invoice EXCEPT !.itemDesc = Some(get_labor_description(labor))]

\* lines 88-89
resolve_itemDesc(invoice, labor) ==
    IF invoice.itemDesc = None
    THEN [invoice EXCEPT !.itemDesc = Some(get_labor_description(labor))]
    ELSE invoice

\* fault: compensation.currency takes precedence over invoice.currency
resolve_currency_compensation_first(invoice, compensation) ==
    IF compensation.currency # None
    THEN Ok([invoice EXCEPT !.currency = compensation.currency])
    ELSE IF invoice.currency = None THEN Raise(CurrencyError) ELSE Ok(invoice)

\* fault: with no currency on either side the block goes on without one
resolve_currency_lenient(invoice, compensation) ==
    IF invoice.currency = None /\ compensation.currency # None
    THEN Ok([invoice EXCEPT !.currency = compensation.currency])
    ELSE Ok(invoice)

\* lines 91-95
resolve_currency(invoice, compensation) ==
    IF invoice.currency = None
    THEN IF compensation.currency # None
         THEN Ok([invoice EXCEPT !.currency = compensation.currency])
         ELSE Raise(CurrencyError)
    ELSE Ok(invoice)

\* fault: every answer but "n" counts as a confirmation
confirms_unless_n(user_confirms) == Lower(user_confirms) # << "n" >>

\* line 99: the answer counts as a confirmation
confirms(user_confirms) == Lower(user_confirms) = yes

----------------------------------------------------------------------------
(* How a run ends *)

\* a raise that propagates to the caller
Raised(e) ==
    /\ pc' = "idle"
    /\ outcome' = e

\* sys.exit(): the process ends
Exited ==
    /\ pc' = "exited"
    /\ outcome' = SystemExit

\* return to the caller
Returned ==
    /\ pc' = "idle"
    /\ outcome' = "returned"

----------------------------------------------------------------------------
(* get_btcpay_invoice(cfg, labor, current_user, compensation) *)

\* line 68: the call
Call_get_btcpay_invoice ==
    /\ pc = "idle"
    /\ calls < MaxCalls
    /\ \E labor \in Labors, compensation \in Compensations :
          frame' = InvoiceFrame(labor, compensation)
    /\ fn' = "get_btcpay_invoice"
    /\ pc' = "L71"
    /\ calls' = calls + 1
    /\ stdout' = NoStdout
    /\ prompts' = <<>>
    /\ remote' = NoRemote
    /\ outcome' = "running"
    /\ cfg0' = cfg
    /\ files0' = files
    /\ UNCHANGED <<cfg, files, btcpay_installed>>

\* fault: the compensation check is missing
CheckCompensation_unchecked ==
    /\ pc = "L71"
    /\ pc' = "L76"
    /\ UNCHANGED <<cfg, files, btcpay_installed, fn, calls, frame, stdout,
                   prompts, remote, outcome, cfg0, files0>>

\* lines 71-72
CheckCompensation ==
    /\ pc = "L71"
    /\ IF frame.compensation = None
       THEN Raised(NoCompensationError)
       ELSE pc' = "L76" /\ UNCHANGED outcome
    /\ UNCHANGED <<cfg, files, btcpay_installed, fn, calls, frame, stdout,
                   prompts, remote, cfg0, files0>>

\* lines 76-78 (and 113-135)
GetClient ==
    /\ pc = "L76"
    /\ IF ~btcpay_installed
       THEN Exited /\ UNCHANGED frame
       ELSE /\ frame' = [frame EXCEPT
                           !.client = Some(get_btcpay_client(cfg, files)),
                           !.hours_worked = Some(get_hours_worked(frame.labor))]
            /\ pc' = "L80"
            /\ UNCHANGED outcome
    /\ UNCHANGED <<cfg, files, btcpay_installed, fn, calls, stdout, prompts,
                   remote, cfg0, files0>>

\* lines 80-86
ResolvePrice ==
    /\ pc = "L80"
    /\ LET r == resolve_price(cfg.invoice, Val(frame.hours_worked),
                              Val(frame.compensation))
       IN  IF r.ok
           THEN cfg' = [cfg EXCEPT !.invoice = r.value] /\ pc' = "L88"
                /\ UNCHANGED outcome
           ELSE Raised(r.error) /\ UNCHANGED cfg
    /\ UNCHANGED <<files, btcpay_installed, fn, calls, frame, stdout, prompts,
                   remote, cfg0, files0>>

\* lines 88-89
ResolveItemDesc ==
    /\ pc = "L88"
    /\ cfg' = [cfg EXCEPT !.invoice = resolve_itemDesc(cfg.invoice, frame.labor)]
    /\ pc' = "L91"
    /\ UNCHANGED <<files, btcpay_installed, fn, calls, frame, stdout, prompts,
                   remote, outcome, cfg0, files0>>

\* lines 91-95
ResolveCurrency ==
    /\ pc = "L91"
    /\ LET r == resolve_currency(cfg.invoice, Val(frame.compensation))
       IN  IF r.ok
           THEN cfg' = [cfg EXCEPT !.invoice = r.value] /\ pc' = "L97"
                /\ UNCHANGED outcome
           ELSE Raised(r.error) /\ UNCHANGED cfg
    /\ UNCHANGED <<files, btcpay_installed, fn, calls, frame, stdout, prompts,
                   remote, cfg0, files0>>

\* lines 97-101: the resolved request is printed and the operator asked
Confirm ==
    /\ pc = "L97"
    /\ stdout' = [stdout EXCEPT !.request = Some(pretty(cfg.invoice))]
    /\ prompts' = Append(prompts, "Is this correct? (yes/n): ")
    /\ \E user_confirms \in Answers :
          /\ frame' = [frame EXCEPT !.user_confirms = Some(user_confirms)]
          /\ IF confirms(user_confirms)
             THEN pc' = "L103" /\ UNCHANGED outcome
             ELSE Exited
    /\ UNCHANGED <<cfg, files, btcpay_installed, fn, calls, remote, cfg0, files0>>

\* lines 103-104: the remote call answers or fails
CreateInvoice ==
    /\ pc = "L103"
    /\ remote' = [remote EXCEPT
                    !.create_invoice = Append(@, to_container(cfg.invoice))]
    /\ \/ \E invoice \in Responses :
            /\ frame' = [frame EXCEPT !.invoice = Some(invoice)]
            /\ pc' = "L106"
            /\ UNCHANGED outcome
       \/ Raised(RemoteError) /\ UNCHANGED frame
    /\ UNCHANGED <<cfg, files, btcpay_installed, fn, calls, stdout, prompts,
                   cfg0, files0>>

\* lines 106-111
ReturnResult ==
    /\ pc = "L106"
    /\ LET result == create(Val(frame.invoice))
       IN  /\ frame' = [frame EXCEPT !.result = Some(result)]
           /\ stdout' = IF cfg.return_status
                        THEN [stdout EXCEPT !.status = Some(pretty(result))]
                        ELSE stdout
    /\ Returned
    /\ UNCHANGED <<cfg, files, btcpay_installed, fn, calls, prompts, remote,
                   cfg0, files0>>

----------------------------------------------------------------------------
(* Specification of invoice submissions on one configuration tree *)

OldHost == << "o" >>

InitInvoice ==
    /\ \E price \in Prices, currency \in Currencies, itemDesc \in ItemDescs,
          return_status \in BOOLEAN :
          cfg = [host |-> Some(OldHost), pem |-> "btcpayserver.pem",
                 tokens |-> OldTokens, return_status |-> return_status,
                 invoice |-> [price |-> price, currency |-> currency,
                              itemDesc |-> itemDesc,
                              orderId |-> Some("order-1")]]
    /\ \E key \in { None, Some(PemText("PEM-OLD")) } :
          files = [f \in FileNames |-> IF f = DefaultPemFile THEN key ELSE None]
    /\ btcpay_installed \in BOOLEAN
    /\ pc = "idle"
    /\ fn = "none"
    /\ calls = 0
    /\ frame = [labor |-> None]
    /\ stdout = NoStdout
    /\ prompts = <<>>
    /\ remote = NoRemote
    /\ outcome = "none"
    /\ cfg0 = cfg
    /\ files0 = files

NextInvoice ==
    \/ Call_get_btcpay_invoice
    \/ CheckCompensation
    \/ GetClient
    \/ ResolvePrice
    \/ ResolveItemDesc
    \/ ResolveCurrency
    \/ Confirm
    \/ CreateInvoice
    \/ ReturnResult

SpecInvoice == InitInvoice /\ [][NextInvoice]_vars

----------------------------------------------------------------------------
(* initialize_btcpay(cfg): inputs and helpers *)

PairingCodeLen == 7

\* what the operator types at the host prompt
Hosts == { <<>>, << "h" >> }

\* what crypto.generate_privkey() may return
Keys == { "PEM-NEW" }

\* what the operator types at the key-file prompt
PemFileEntries == { <<>>, CustomPemFile }

\* what the operator types at the pairing-code prompt
PairingCodes == { <<>>,
                  << "1", "2", "3" >>,
                  << "1", "2", "3", "4", "5", "6", "7" >>,
                  << "1", "2", "3", "4", "5", "6", "7", "8" >> }

\* what the remote pair_client may return
PairResults == { [r \in {"merchant"} |-> "tok-new"],
                 [r \in {"merchant", "pos"} |-> "tok-new"] }

PairError == "pair_client raised"

FileNotFoundError == "FileNotFoundError"

\* what the operator types at the configuration-file prompt
ConfigFileEntries == { <<>>, CustomConfigFile }

PairingFrame ==
    [host |-> None, generate_privkey |-> None, save_privkey |-> None,
     pem_file |-> None, client |-> None, pairing_code |-> None,
     save_configuration |-> None, btcpay_filename |-> None,
     pem_file_entry |-> None]   \* what was typed at line 169, before line 171

\* line 149
commit_host(c, host) == [c EXCEPT !.host = Some(host)]

\* fault: the blank host is not detected
host_is_blank_never(c) == FALSE

\* line 151
host_is_blank(c) == Len(Val(c.host)) = 0

\* fault: every answer but "n" counts as yes
answers_yes_unless_n(answer) == Lower(answer) # << "n" >>

\* lines 157 and 197: the answer is lower-cased before the comparison
answers_yes(answer) == Lower(answer) = yes

\* line 168: the answer is compared as typed
save_privkey_is_yes(save_privkey) == save_privkey = yes

\* fault: the entered file name is ignored
pem_file_name_always_default(pem_file) == DefaultPemFile

\* lines 170-171
pem_file_name(pem_file) == IF Len(pem_file) = 0 THEN DefaultPemFile ELSE pem_file

\* fault: only codes longer than seven characters are rejected
pairing_code_ok_at_most(pairing_code) == Len(pairing_code) <= PairingCodeLen

\* line 189
pairing_code_ok(pairing_code) == ~(Len(pairing_code) # PairingCodeLen)

\* line 193: the call client.pair_client(pairing_code), logged with what it
\* returned (None when it raised)
pair_client_called(log, client, pairing_code, result) ==
    [log EXCEPT !.pair_client =
        Append(@, [client |-> client, pairing_code |-> pairing_code,
                   result |-> result])]

\* fault: the returned tokens are merged into the old ones
commit_tokens_merged(c, tokens) ==
    [c EXCEPT !.tokens =
        [r \in DOMAIN c.tokens \cup DOMAIN tokens |->
            IF r \in DOMAIN tokens THEN tokens[r] ELSE c.tokens[r]]]

\* line 193
commit_tokens(c, tokens) == [c EXCEPT !.tokens = tokens]

\* open(name, 'w') succeeds: the blank name cannot be opened
can_open(name) == name \in FileNames

\* open(name, 'w') ... write(text)
write_file(fs, name, contents) == [fs EXCEPT ![name] = Some(contents)]

----------------------------------------------------------------------------
(* initialize_btcpay(cfg) *)

\* line 138: the call
Call_initialize_btcpay ==
    /\ pc = "idle"
    /\ calls < MaxCalls
    /\ frame' = PairingFrame
    /\ fn' = "initialize_btcpay"
    /\ pc' = "L139"
    /\ calls' = calls + 1
    /\ stdout' = NoStdout
    /\ prompts' = <<>>
    /\ remote' = NoRemote
    /\ outcome' = "running"
    /\ cfg0' = cfg
    /\ files0' = files
    /\ UNCHANGED <<cfg, files, btcpay_installed>>

\* lines 139-145
ImportBTCPay ==
    /\ pc = "L139"
    /\ IF ~btcpay_installed
       THEN Exited
       ELSE pc' = "L147" /\ UNCHANGED outcome
    /\ UNCHANGED <<cfg, files, btcpay_installed, fn, calls, frame, stdout,
                   prompts, remote, cfg0, files0>>

\* lines 147-154: AwaitHost
AwaitHost ==
    /\ pc = "L147"
    /\ prompts' = Append(prompts, "host")
    /\ \E host \in Hosts :
          /\ frame' = [frame EXCEPT !.host = Some(host)]
          /\ cfg' = commit_host(cfg, host)
    /\ IF host_is_blank(cfg')
       THEN Exited
       ELSE pc' = "L156" /\ UNCHANGED outcome
    /\ UNCHANGED <<files, btcpay_installed, fn, calls, stdout, remote, cfg0,
                   files0>>

\* fault: the key-persistence question is asked whatever the answer
ChooseKeySource_asks_save ==
    /\ pc = "L156"
    /\ prompts' = Append(prompts, "generate_privkey")
    /\ \E generate_privkey \in Answers :
          /\ frame' = [frame EXCEPT !.generate_privkey = Some(generate_privkey)]
          /\ IF answers_yes(generate_privkey)
             THEN /\ \E key \in Keys : cfg' = [cfg EXCEPT !.pem = key]
                  /\ remote' = [remote EXCEPT !.generate_privkey = @ + 1]
             ELSE UNCHANGED <<cfg, remote>>
          /\ pc' = "L166"
    /\ UNCHANGED <<files, btcpay_installed, fn, calls, stdout, outcome, cfg0,
                   files0>>

\* lines 156-164 and 181-182: ChooseKeySource
ChooseKeySource ==
    /\ pc = "L156"
    /\ prompts' = Append(prompts, "generate_privkey")
    /\ \E generate_privkey \in Answers :
          /\ frame' = [frame EXCEPT !.generate_privkey = Some(generate_privkey)]
          /\ IF answers_yes(generate_privkey)
             THEN /\ \E key \in Keys : cfg' = [cfg EXCEPT !.pem = key]
                  /\ remote' = [remote EXCEPT !.generate_privkey = @ + 1]
                  /\ pc' = "L166"
             ELSE /\ pc' = "L186"
                  /\ UNCHANGED <<cfg, remote>>
    /\ UNCHANGED <<files, btcpay_installed, fn, calls, stdout, outcome, cfg0,
                   files0>>

\* lines 166-168: KeyPersistence, the question
AskSavePrivkey ==
    /\ pc = "L166"
    /\ prompts' = Append(prompts, "save_privkey")
    /\ \E save_privkey \in Answers :
          /\ frame' = [frame EXCEPT !.save_privkey = Some(save_privkey)]
          /\ pc' = IF save_privkey_is_yes(save_privkey) THEN "L169" ELSE "L186"
    /\ UNCHANGED <<cfg, files, btcpay_installed, fn, calls, stdout, remote,
                   outcome, cfg0, files0>>

\* fault: the key file is written without the existence check
SavePrivkey_overwrite ==
    /\ pc = "L169"
    /\ prompts' = Append(prompts, "pem_file")
    /\ \E entry \in PemFileEntries :
          LET pem_file == pem_file_name(entry)
          IN  /\ frame' = [frame EXCEPT !.pem_file = Some(pem_file),
                                        !.pem_file_entry = Some(entry)]
              /\ files' = write_file(files, pem_file, PemText(cfg.pem))
              /\ pc' = "L186"
    /\ UNCHANGED <<cfg, btcpay_installed, fn, calls, stdout, remote, outcome,
                   cfg0, files0>>

\* lines 169-180: KeyPersistence, the file
SavePrivkey ==
    /\ pc = "L169"
    /\ prompts' = Append(prompts, "pem_file")
    /\ \E entry \in PemFileEntries :
          LET pem_file == pem_file_name(entry)
          IN  /\ frame' = [frame EXCEPT !.pem_file = Some(pem_file),
                                        !.pem_file_entry = Some(entry)]
              /\ IF exists(files, pem_file)
                 THEN Exited /\ UNCHANGED files
                 ELSE /\ files' = write_file(files, pem_file, PemText(cfg.pem))
                      /\ pc' = "L186"
                      /\ UNCHANGED outcome
    /\ UNCHANGED <<cfg, btcpay_installed, fn, calls, stdout, remote, cfg0,
                   files0>>

\* lines 186-194: AwaitPairingCode
AwaitPairingCode ==
    /\ pc = "L186"
    /\ prompts' = Append(prompts, "pairing_code")
    /\ \E pairing_code \in PairingCodes :
          LET client == [host |-> cfg.host, pem |-> cfg.pem]
          IN  /\ frame' = [frame EXCEPT !.client = Some(client),
                                        !.pairing_code = Some(pairing_code)]
              /\ IF ~pairing_code_ok(pairing_code)
                 THEN Exited /\ UNCHANGED <<cfg, remote>>
                 ELSE \/ \E tokens \in PairResults :
                           /\ remote' = pair_client_called(remote, client,
                                                           pairing_code, Some(tokens))
                           /\ cfg' = commit_tokens(cfg, tokens)
                           /\ pc' = "L196"
                           /\ UNCHANGED outcome
                      \/ /\ remote' = pair_client_called(remote, client,
                                                          pairing_code, None)
                         /\ Raised(PairError)
                         /\ UNCHANGED cfg
    /\ UNCHANGED <<files, btcpay_installed, fn, calls, stdout, cfg0, files0>>

\* lines 196-205: PersistConfiguration
PersistConfiguration ==
    /\ pc = "L196"
    /\ \E save_configuration \in Answers :
          IF answers_yes(save_configuration)
          THEN \E btcpay_filename \in ConfigFileEntries :
                 /\ frame' = [frame EXCEPT
                                !.save_configuration = Some(save_configuration),
                                !.btcpay_filename = Some(btcpay_filename)]
                 /\ prompts' = prompts \o << "save_configuration", "btcpay_filename" >>
                 /\ IF can_open(btcpay_filename)
                    THEN /\ files' = write_file(files, btcpay_filename, pretty(cfg))
                         /\ stdout' = [stdout EXCEPT !.status = Some(pretty(cfg))]
                         /\ Returned
                    ELSE /\ Raised(FileNotFoundError)
                         /\ UNCHANGED <<files, stdout>>
          ELSE /\ frame' = [frame EXCEPT
                              !.save_configuration = Some(save_configuration)]
               /\ prompts' = Append(prompts, "save_configuration")
               /\ stdout' = [stdout EXCEPT !.status = Some(pretty(cfg))]
               /\ Returned
               /\ UNCHANGED files
    /\ UNCHANGED <<cfg, btcpay_installed, fn, calls, remote, cfg0, files0>>

----------------------------------------------------------------------------
(* Specification of pairing runs on one configuration tree *)

InitPairing ==
    /\ \E host \in { None, Some(OldHost) }, pem \in { "btcpayserver.pem", "PEM-OLD" },
          tokens \in { NoTokens, OldTokens } :
          cfg = [host |-> host, pem |-> pem, tokens |-> tokens,
                 return_status |-> FALSE,
                 invoice |-> [price |-> None, currency |-> None,
                              itemDesc |-> None, orderId |-> None]]
    /\ \E present \in SUBSET { DefaultPemFile, CustomPemFile } :
          files = [f \in FileNames |->
                     IF f \in present THEN Some(PemText("PEM-OLD")) ELSE None]
    /\ btcpay_installed \in BOOLEAN
    /\ pc = "idle"
    /\ fn = "none"
    /\ calls = 0
    /\ frame = [labor |-> None]
    /\ stdout = NoStdout
    /\ prompts = <<>>
    /\ remote = NoRemote
    /\ outcome = "none"
    /\ cfg0 = cfg
    /\ files0 = files

NextPairing ==
    \/ Call_initialize_btcpay
    \/ ImportBTCPay
    \/ AwaitHost
    \/ ChooseKeySource
    \/ AskSavePrivkey
    \/ SavePrivkey
    \/ AwaitPairingCode
    \/ PersistConfiguration

SpecPairing == InitPairing /\ [][NextPairing]_vars

\* Every step of the run blocks on the operator or on one synchronous call;
\* with the operator answering each prompt, a step that can be taken is taken.
SpecPairingFair == SpecPairing /\ WF_vars(NextPairing)

----------------------------------------------------------------------------
(* Vocabulary of the properties *)

InInvoice == fn = "get_btcpay_invoice"

InPairing == fn = "initialize_btcpay"

\* the run has ended (returned, raised or exited)
Finished == pc \in { "idle", "exited" } /\ outcome # "none"

\* the run got past the compensation check and the client construction and
\* entered resolution (line 80)
ReachedResolution == InInvoice /\ frame.hours_worked # None

\* the price block (lines 80-86) has been executed
PriceBlockDone == ReachedResolution /\ pc # "L80"

\* the itemDesc block (lines 88-89) has been executed
ItemDescBlockDone ==
    /\ InInvoice
    /\ \/ pc \in { "L91", "L97", "L103", "L106" }
       \/ outcome = CurrencyError
       \/ stdout.request # None

\* the currency block (lines 91-95) has been executed without raising
CurrencyResolved ==
    /\ InInvoice
    /\ \/ pc \in { "L97", "L103", "L106" }
       \/ stdout.request # None

\* the answers that are an affirmative yes
AffirmativeAnswers == { <<"y", "e", "s">>, <<"Y", "E", "S">> }

\* every request seen by the operator or by the remote service in this run
RequestsOut ==
    { stdout.request[i] : i \in DOMAIN stdout.request }
        \cup { remote.create_invoice[i] : i \in DOMAIN remote.create_invoice }

----------------------------------------------------------------------------
(* C1: when invoice.price is set in the configuration the call starts      *)
(* from, the price of the resolved request -- in the tree, as shown to the *)
(* operator and as sent to create_invoice -- is that value, for every      *)
(* labor record and every compensation that is present, wage set or not.   *)
C1_ExplicitPriceWins ==
    (InInvoice /\ cfg0.invoice.price # None /\ frame.compensation # None) =>
        /\ cfg.invoice.price = cfg0.invoice.price
        /\ \A r \in RequestsOut : r.price = cfg0.invoice.price
        /\ outcome # PriceError

\* explicit price 7, wage 999, 5 hours: the request was resolved and sent
C1_Witness ==
    /\ InInvoice
    /\ cfg0.invoice.price = Some(7)
    /\ frame.compensation # None
    /\ Val(frame.compensation).wage = Some(999)
    /\ frame.labor.hours = 5
    /\ Len(remote.create_invoice) = 1
    /\ remote.create_invoice[1].price = Some(7)

(* C2: when invoice.price is unset at the start of the call and            *)
(* compensation.wage is set, the resolved price is exactly                 *)
(* hoursWorked(labor) * wage.                                              *)
C2_PriceFromWage ==
    (PriceBlockDone /\ cfg0.invoice.price = None
        /\ Val(frame.compensation).wage # None) =>
        /\ cfg.invoice.price =
             Some(frame.labor.hours * Val(Val(frame.compensation).wage))
        /\ \A r \in RequestsOut : r.price = cfg.invoice.price

\* 5 hours at wage 20, currency USD, price and currency unset: 100 USD
C2_Witness ==
    /\ InInvoice
    /\ cfg0.invoice.price = None
    /\ cfg0.invoice.currency = None
    /\ frame.labor.hours = 5
    /\ frame.compensation = Some([wage |-> Some(20), currency |-> Some("USD")])
    /\ stdout.request # None
    /\ Val(stdout.request).price = Some(100)
    /\ Val(stdout.request).currency = Some("USD")

(* C3: with invoice.price and compensation.wage both unset, a run that     *)
(* enters resolution ends with the price error, create_invoice is never    *)
(* invoked in the run and the confirmation prompt is never shown.          *)
C3_UnresolvablePrice ==
    (InInvoice /\ cfg0.invoice.price = None /\ frame.compensation # None
        /\ Val(frame.compensation).wage = None) =>
        /\ remote.create_invoice = <<>>
        /\ prompts = <<>>
        /\ stdout.request = None
        /\ PriceBlockDone => (pc = "idle" /\ outcome = PriceError)

C3_Witness ==
    /\ InInvoice
    /\ cfg0.invoice.price = None
    /\ frame.compensation # None
    /\ Val(frame.compensation).wage = None
    /\ outcome = PriceError
    /\ pc = "idle"

(* C4: the resolved currency is the configured invoice.currency when that  *)
(* is set, else compensation.currency when that is set; with both unset    *)
(* create_invoice is never invoked and a run whose price was resolved ends *)
(* with the currency error -- whichever way price and itemDesc were        *)
(* resolved.                                                               *)
C4_CurrencyPrecedence ==
    (InInvoice /\ frame.compensation # None) =>
        LET comp == Val(frame.compensation)
            bothUnset == cfg0.invoice.currency = None /\ comp.currency = None
        IN  /\ CurrencyResolved =>
                 /\ ~bothUnset
                 /\ cfg.invoice.currency =
                      IF cfg0.invoice.currency # None
                      THEN cfg0.invoice.currency ELSE comp.currency
                 /\ \A r \in RequestsOut : r.currency = cfg.invoice.currency
            /\ bothUnset =>
                 /\ remote.create_invoice = <<>>
                 /\ prompts = <<>>
                 /\ (Finished /\ PriceBlockDone /\ outcome # PriceError)
                        => (pc = "idle" /\ outcome = CurrencyError)

\* currency unset on both sides, price computed from the wage
C4_Witness ==
    /\ InInvoice
    /\ cfg0.invoice.currency = None
    /\ cfg0.invoice.price = None
    /\ cfg.invoice.price # None
    /\ outcome = CurrencyError

(* C5: the resolved itemDesc is the configured invoice.itemDesc when that  *)
(* is set and laborDescription(labor) otherwise, and the itemDesc block    *)
(* always goes on to the currency block: it never ends the run.            *)
C5_ItemDescState ==
    ItemDescBlockDone =>
        /\ cfg.invoice.itemDesc =
             IF cfg0.invoice.itemDesc # None
             THEN cfg0.invoice.itemDesc ELSE Some(frame.labor.desc)
        /\ \A r \in RequestsOut : r.itemDesc = cfg.invoice.itemDesc

C5_ItemDesc ==
    /\ []C5_ItemDescState
    /\ [][pc = "L88" => (pc' = "L91" /\ outcome' = outcome)]_vars

C5_Witness ==
    /\ InInvoice
    /\ cfg0.invoice.itemDesc = None
    /\ stdout.request # None
    /\ Val(stdout.request).itemDesc = Some("5h of work")

(* C6: when the operator's answer to the confirmation prompt is not an     *)
(* affirmative yes, the run ends there and create_invoice was invoked zero *)
(* times.                                                                  *)
C6_DeclineNoRemote ==
    (InInvoice /\ frame.user_confirms # None
        /\ Val(frame.user_confirms) \notin AffirmativeAnswers) =>
        /\ remote.create_invoice = <<>>
        /\ pc = "exited"
        /\ outcome = SystemExit

C6_Witness ==
    /\ InInvoice
    /\ frame.user_confirms = Some(<< "y" >>)
    /\ stdout.request # None
    /\ pc = "exited"

(* C7: with compensation absent the call raises the missing-compensation   *)
(* error whatever the configuration, the library being installed or not:   *)
(* nothing is resolved, no client is built, no prompt is shown,            *)
(* create_invoice is not invoked and the tree is as before the call.       *)
C7_MissingCompensation ==
    (InInvoice /\ frame.compensation = None) =>
        /\ cfg = cfg0
        /\ prompts = <<>>
        /\ stdout.request = None
        /\ remote.create_invoice = <<>>
        /\ frame.client = None
        /\ frame.hours_worked = None
        /\ pc # "L71" => (pc = "idle" /\ outcome = NoCompensationError)

\* price and currency both explicitly set, compensation absent
C7_Witness ==
    /\ InInvoice
    /\ frame.compensation = None
    /\ cfg0.invoice.price # None
    /\ cfg0.invoice.currency # None
    /\ outcome = NoCompensationError

(* C8: after a confirmation create_invoice is invoked exactly once, with   *)
(* exactly the request shown to the operator; the value returned is the    *)
(* remote response; a failing remote call is not retried and ends the run. *)
C8_SubmitOnce ==
    InInvoice =>
        /\ Len(remote.create_invoice) <= 1
        /\ (Finished /\ frame.user_confirms # None
               /\ Val(frame.user_confirms) \in AffirmativeAnswers) =>
                 /\ Len(remote.create_invoice) = 1
                 /\ remote.create_invoice[1] = Val(stdout.request)
                 /\ outcome \in { "returned", RemoteError }
                 /\ pc = "idle"
        /\ outcome = "returned" =>
                 /\ frame.invoice \in { Some(r) : r \in Responses }
                 /\ frame.result = frame.invoice
        /\ outcome = RemoteError =>
                 /\ frame.invoice = None
                 /\ frame.result = None

C8_Witness ==
    /\ InInvoice
    /\ outcome = "returned"
    /\ frame.user_confirms = Some(<<"Y", "E", "S">>)
    /\ Len(remote.create_invoice) = 1
    /\ remote.create_invoice[1].orderId = Some("order-1")
    /\ frame.result = Some([id |-> "inv-2", status |-> "paid"])

(* C9: in initialize_btcpay an empty host ends the run with no change: the *)
(* tree (host, key, tokens) is as before the run, no file is written and   *)
(* no remote operation is invoked.                                         *)
C9_EmptyHostNoChange ==
    (InPairing /\ frame.host = Some(<<>>)) =>
        /\ cfg = cfg0
        /\ files = files0
        /\ remote = NoRemote

(* C10: a pairing code whose length is not 7 ends the run without invoking *)
(* pair_client, and the tokens are those of before the run.                *)
C10_BadPairingCode ==
    (InPairing /\ frame.pairing_code # None
        /\ Len(Val(frame.pairing_code)) # 7) =>
        /\ remote.pair_client = <<>>
        /\ cfg.tokens = cfg0.tokens
        /\ pc = "exited"
        /\ outcome = SystemExit

\* an 8-character code, with tokens present before the run
C10_Witness ==
    /\ InPairing
    /\ frame.pairing_code # None
    /\ Len(Val(frame.pairing_code)) = 8
    /\ cfg0.tokens = OldTokens
    /\ pc = "exited"

----------------------------------------------------------------------------
(* Vocabulary of the pairing properties *)

\* the pairing-code block accepted the code and pair_client returned
Paired == InPairing /\ (pc = "L196" \/ outcome \in { "returned", FileNotFoundError })

\* the key files of the model
PemFiles == { DefaultPemFile, CustomPemFile }

\* the prompt p was shown in this run
Prompted(p) == \E i \in DOMAIN prompts : prompts[i] = p

(* C11: once pair_client has accepted a 7-character code, the tokens field *)
(* is exactly the mapping it returned -- a role held before the run and    *)
(* absent from the result is gone -- and pair_client was called once, with *)
(* the host entered in this run and the key the tree holds after the       *)
(* key-source step.                                                        *)
C11_TokensReplaced ==
    Paired =>
        /\ Len(remote.pair_client) = 1
        /\ LET call == remote.pair_client[1]
           IN  /\ call.result # None
               /\ cfg.tokens = Val(call.result)
               /\ \A r \in DOMAIN cfg0.tokens :
                     r \notin DOMAIN Val(call.result) => r \notin DOMAIN cfg.tokens
               /\ Len(call.pairing_code) = 7
               /\ call.client.host = frame.host
               /\ Val(call.client.host) # <<>>
               /\ call.client.pem = cfg.pem
               /\ call.client.pem = IF remote.generate_privkey = 0
                                    THEN cfg0.pem ELSE "PEM-NEW"

\* the old tokens held merchant and pos, the result holds merchant only
C11_Witness ==
    /\ Paired
    /\ cfg0.tokens = OldTokens
    /\ DOMAIN cfg.tokens = { "merchant" }
    /\ cfg.tokens["merchant"] = "tok-new"
    /\ remote.generate_privkey = 1

(* C12: when the operator saves a generated key and the target path (the  *)
(* entered name, or btcpayserver.pem for a blank entry) already holds a    *)
(* file, the run aborts: no file changes, the pairing-code prompt is not   *)
(* shown, pair_client is not called and no configuration file is written.  *)
C12_ExistingKeyFileAborts ==
    (InPairing /\ frame.pem_file # None
        /\ exists(files0, Val(frame.pem_file))) =>
        /\ files = files0
        /\ pc = "exited"
        /\ outcome = SystemExit
        /\ ~Prompted("pairing_code")
        /\ ~Prompted("save_configuration")
        /\ remote.pair_client = <<>>

\* blank entry, btcpayserver.pem already present
C12_Witness ==
    /\ InPairing
    /\ frame.pem_file_entry = Some(<<>>)
    /\ frame.pem_file = Some(DefaultPemFile)
    /\ files0[DefaultPemFile] = Some(PemText("PEM-OLD"))
    /\ cfg.pem = "PEM-NEW"
    /\ pc = "exited"

(* C13: after a successful pairing, when the operator accepts saving the   *)
(* configuration, the sub-tree is written to btcpay.yaml for a blank       *)
(* filename entry and to the entered file otherwise.                       *)
C13_ConfigFileDefault ==
    (Paired /\ Finished /\ frame.save_configuration # None
        /\ Val(frame.save_configuration) \in AffirmativeAnswers) =>
        LET entry == Val(frame.btcpay_filename)
            name  == IF entry = <<>> THEN DefaultConfigFile ELSE entry
        IN  /\ outcome = "returned"
            /\ files[name] = Some(pretty(cfg))

(* C14: after an abort of the pairing run (sys.exit at the blank host, the *)
(* existing key file or the invalid pairing code) only the host field and  *)
(* a key file written in this run may differ from before the run: pem and  *)
(* tokens have their pre-run values.                                       *)
C14_AbortKeepsKeyAndTokens ==
    (InPairing /\ pc = "exited") =>
        /\ cfg.pem = cfg0.pem
        /\ cfg.tokens = cfg0.tokens

(* C14, amended: after such an abort the tokens have their pre-run value   *)
(* and nothing was paired; only the host field, the in-memory pem -- when  *)
(* the operator had a key generated in this run -- and a key file written  *)
(* in this run (absent before, holding that key) may differ.               *)
C14_AbortFrame ==
    (InPairing /\ pc = "exited") =>
        /\ cfg.tokens = cfg0.tokens
        /\ cfg.invoice = cfg0.invoice
        /\ cfg.return_status = cfg0.return_status
        /\ remote.pair_client = <<>>
        /\ cfg.pem # cfg0.pem =>
              /\ frame.generate_privkey # None
              /\ Val(frame.generate_privkey) \in AffirmativeAnswers
              /\ remote.generate_privkey = 1
        /\ \A f \in FileNames :
              files[f] # files0[f] =>
                  /\ frame.pem_file = Some(f)
                  /\ files0[f] = None
                  /\ files[f] = Some(PemText(cfg.pem))

\* a key was generated and saved, then the pairing code was invalid
C14_Witness ==
    /\ InPairing
    /\ pc = "exited"
    /\ cfg.pem # cfg0.pem
    /\ files # files0
    /\ frame.pairing_code = Some(<< "1", "2", "3" >>)
    /\ cfg0.tokens = OldTokens

----------------------------------------------------------------------------
(* C15: get_btcpay_invoice leaves invoice.price, invoice.currency and      *)
(* invoice.itemDesc of the shared tree as they were before the call,       *)
(* whatever the outcome, so that a field unset before a submission is      *)
(* unset for the next one.                                                 *)
C15_ResolutionPure ==
    InInvoice =>
        /\ cfg.invoice.price = cfg0.invoice.price
        /\ cfg.invoice.currency = cfg0.invoice.currency
        /\ cfg.invoice.itemDesc = cfg0.invoice.itemDesc

(* C16: whenever create_invoice has been invoked in a run, its request has *)
(* price, currency and itemDesc all set, it is the request printed after   *)
(* the three resolution blocks, and the operator has answered yes; a run   *)
(* that ended with a resolution error has invoked create_invoice zero      *)
(* times.                                                                  *)
C16_NoPartialInvoice ==
    InInvoice =>
        /\ \A i \in DOMAIN remote.create_invoice :
              LET r == remote.create_invoice[i]
              IN  /\ r.price # None
                  /\ r.currency # None
                  /\ r.itemDesc # None
                  /\ stdout.request = Some(r)
                  /\ frame.user_confirms # None
                  /\ Val(frame.user_confirms) \in AffirmativeAnswers
                  /\ pc \in { "L106", "idle" }
        /\ outcome \in { NoCompensationError, PriceError, CurrencyError } =>
              /\ remote.create_invoice = <<>>
              /\ prompts = <<>>

\* a request whose three fields all came from the second-priority sources
C16_Witness ==
    /\ InInvoice
    /\ cfg0.invoice.price = None
    /\ cfg0.invoice.currency = None
    /\ cfg0.invoice.itemDesc = None
    /\ Len(remote.create_invoice) = 1
    /\ remote.create_invoice[1].price = Some(4995)
    /\ remote.create_invoice[1].currency = Some("USD")

(* C17: an explicitly set falsy value counts as set: with invoice.price    *)
(* explicitly 0 the resolved price is 0 and no price error is raised even  *)
(* with the wage unset; with invoice.currency explicitly "" the resolved   *)
(* currency is "" and compensation.currency is not used.                   *)
C17_FalsyIsSet ==
    (InInvoice /\ frame.compensation # None) =>
        /\ cfg0.invoice.price = Some(0) =>
              /\ cfg.invoice.price = Some(0)
              /\ outcome # PriceError
              /\ \A r \in RequestsOut : r.price = Some(0)
        /\ cfg0.invoice.currency = Some("") =>
              /\ cfg.invoice.currency = Some("")
              /\ outcome # CurrencyError
              /\ \A r \in RequestsOut : r.currency = Some("")

\* price 0 and currency "", 5 hours at wage 20 in USD: 0 "" is what is sent
C17_Witness ==
    /\ InInvoice
    /\ cfg0.invoice.price = Some(0)
    /\ cfg0.invoice.currency = Some("")
    /\ frame.labor.hours = 5
    /\ frame.compensation = Some([wage |-> Some(20), currency |-> Some("USD")])
    /\ Len(remote.create_invoice) = 1
    /\ remote.create_invoice[1].price = Some(0)
    /\ remote.create_invoice[1].currency = Some("")

----------------------------------------------------------------------------
(* C18: when the answer to the key-generation question is not yes,         *)
(* generate_privkey is not invoked, pem is unchanged, the key-persistence  *)
(* prompts are not shown, no key file is written, and the next prompt is   *)
(* the pairing-code prompt.                                                *)
C18_NoKeyGeneration ==
    (InPairing /\ frame.generate_privkey # None
        /\ Val(frame.generate_privkey) \notin AffirmativeAnswers) =>
        /\ remote.generate_privkey = 0
        /\ cfg.pem = cfg0.pem
        /\ ~Prompted("save_privkey")
        /\ ~Prompted("pem_file")
        /\ \A f \in PemFiles : files[f] = files0[f]
        /\ Len(prompts) = 2 => pc = "L186"
        /\ Len(prompts) >= 3 => prompts[3] = "pairing_code"

\* the answer was "n" and the pairing code has been asked for
C18_Witness ==
    /\ InPairing
    /\ frame.generate_privkey = Some(<< "n" >>)
    /\ frame.pairing_code # None
    /\ Len(remote.pair_client) = 1
    /\ remote.pair_client[1].client.pem = "PEM-OLD"

(* C19: when a key was generated, the operator answers yes to saving it    *)
(* and the target path (btcpayserver.pem for a blank entry, else the       *)
(* entry) holds no file, the file written there holds exactly the          *)
(* generated key, which is the key of the tree and of the client used for  *)
(* pair_client; when the operator does not answer yes, no key file is      *)
(* created and no file name is asked for.                                  *)
C19_KeyFileContents ==
    (InPairing /\ frame.save_privkey # None) =>
        IF frame.save_privkey = Some(<< "y", "e", "s" >>)
        THEN frame.pem_file_entry # None =>
               LET entry == Val(frame.pem_file_entry)
                   name  == IF entry = <<>> THEN << "btcpayserver.pem" >> ELSE entry
               IN  /\ frame.pem_file = Some(name)
                   /\ ~exists(files0, name) =>
                         /\ files[name] = Some(PemText("PEM-NEW"))
                         /\ cfg.pem = "PEM-NEW"
                         /\ remote.generate_privkey = 1
                         /\ \A i \in DOMAIN remote.pair_client :
                               remote.pair_client[i].client.pem = "PEM-NEW"
                         /\ \A f \in PemFiles \ { name } : files[f] = files0[f]
        ELSE /\ \A f \in PemFiles : files[f] = files0[f]
             /\ ~Prompted("pem_file")

\* the key was saved under the name entered and then used for pairing
C19_Witness ==
    /\ InPairing
    /\ frame.pem_file_entry = Some(CustomPemFile)
    /\ files0[CustomPemFile] = None
    /\ files[CustomPemFile] = Some(PemText("PEM-NEW"))
    /\ Len(remote.pair_client) = 1

----------------------------------------------------------------------------
(* C20: the pairing run is linear and one-shot.                            *)

\* the order of the states: AwaitHost, ChooseKeySource, KeyPersistence (its
\* question and its file), AwaitPairingCode, PersistConfiguration, end
PairingRank(p) ==
    CASE p = "L139" -> 0
      [] p = "L147" -> 1
      [] p = "L156" -> 2
      [] p = "L166" -> 3
      [] p = "L169" -> 4
      [] p = "L186" -> 5
      [] p = "L196" -> 6
      [] OTHER -> 7

\* the run is under way
PairingRunning == InPairing /\ outcome = "running"

\* pair_client at most once, and only with a non-empty host committed
PairOnceAfterHost ==
    InPairing =>
        /\ Len(remote.pair_client) <= 1
        /\ Len(remote.pair_client) = 1 =>
              /\ cfg.host # None
              /\ Val(cfg.host) # <<>>
              /\ cfg.host = frame.host
              /\ remote.pair_client[1].client.host = cfg.host

(* C20: every step of a run moves to a later state of the order AwaitHost, *)
(* ChooseKeySource, KeyPersistence, AwaitPairingCode,                      *)
(* PersistConfiguration, end (so none is visited twice or returned to);    *)
(* pair_client is invoked at most once per run and only after a non-empty  *)
(* host was committed; and, the operator answering each prompt, every run  *)
(* reaches an end (abort or success).                                      *)
C20_LinearOneShot ==
    /\ [][PairingRunning => PairingRank(pc') > PairingRank(pc)]_vars
    /\ []PairOnceAfterHost
    /\ (PairingRunning ~> (InPairing /\ Finished /\ outcome # "running"))

\* a run that went through every state and ended in success
C20_Witness ==
    /\ InPairing
    /\ outcome = "returned"
    /\ prompts = << "host", "generate_privkey", "save_privkey", "pem_file",
                    "pairing_code", "save_configuration", "btcpay_filename" >>

====
